---------------------------- MODULE Spec2Model ----------------------------
(***************************************************************************)
(* A model of the ucompress force-controlled experiment                   *)
(* (experiments/force_controlled.py), the hydration experiment            *)
(* (experiments/hydration.py), the fibre-reinforced neo-Hookean mechanics *)
(* (models/mechanics/fibre_reinforced_nh.py) and the zero osmotic         *)
(* pressure (models/osmosis/no_osmosis.py).                               *)
(*                                                                         *)
(* Numbers.  The program computes with floating-point arrays.  The model  *)
(* computes with exact rationals <<num, den>>, so that "F_u[0] == u[0]    *)
(* exactly" and "JAC is the exact derivative of FUN" are statements an    *)
(* exhaustive check can refute.  A dual number <<value, derivative>> of   *)
(* rationals carries a value together with its exact derivative with      *)
(* respect to one chosen unknown (forward-mode differentiation); the       *)
(* residual is written once, over dual numbers, its value part is what    *)
(* build_residual stores and its derivative part is the exact Jacobian    *)
(* column the analytic JAC is compared against.                            *)
(*                                                                         *)
(* Indices.  Python index k of an array of length n is index k+1 here;    *)
(* index -1 is n; the slice 1:-1 is 2..n-1 and the slice :-1 is 1..n-1.   *)
(***************************************************************************)
EXTENDS Integers, Sequences, FiniteSets, TLC

(***************************************************************************)
(* Bounds of the model.                                                    *)
(***************************************************************************)
\* largest number of grid nodes N an experiment is built with
MaxN == 3
\* build_residual calls in a row at one state that are told apart
MaxCalls == 2
\* largest number of callback evaluations a root finder makes in one solve
MaxTrials == 2
\* largest length of the stretch arrays handed to eval_stress_derivatives
MaxLen == 3

(***************************************************************************)
(* Exact rational arithmetic (the model of the float arithmetic).          *)
(***************************************************************************)
Abs(x) == IF x < 0 THEN -x ELSE x

RECURSIVE GCD(_, _)
GCD(a, b) == IF b = 0 THEN a ELSE GCD(b, a % b)

\* the rational n/d in lowest terms with a positive denominator
Rat(n, d) ==
    LET s == IF d < 0 THEN -1 ELSE 1
        g == GCD(Abs(n), Abs(d))
    IN  <<(s * n) \div g, (s * d) \div g>>

Zero == <<0, 1>>
One == <<1, 1>>
Two == <<2, 1>>
RInt(n) == <<n, 1>>

\* a + b over the least common denominator
RAdd(a, b) ==
    IF a = Zero THEN b
    ELSE IF b = Zero THEN a
    ELSE LET g == GCD(a[2], b[2])
         IN  Rat(a[1] * (b[2] \div g) + b[1] * (a[2] \div g), (a[2] \div g) * b[2])
RNeg(a) == <<-a[1], a[2]>>
RSub(a, b) == RAdd(a, RNeg(b))
\* a * b, cancelling across before multiplying
RMul(a, b) ==
    IF a = Zero THEN Zero
    ELSE IF b = Zero THEN Zero
    ELSE LET g1 == GCD(Abs(a[1]), b[2])
             g2 == GCD(Abs(b[1]), a[2])
         IN  <<(a[1] \div g1) * (b[1] \div g2), (a[2] \div g2) * (b[2] \div g1)>>
\* a / b for b # 0
RDiv(a, b) ==
    IF b = One THEN a
    ELSE IF b[1] < 0 THEN RMul(a, <<-b[2], -b[1]>>) ELSE RMul(a, <<b[2], b[1]>>)
RInv(a) == RDiv(One, a)
RSq(a) == RMul(a, a)

\* np.sqrt on the perfect squares the model draws its stretches from
ISqrt(n) == CHOOSE k \in 0..n : k * k = n
RSqrt(a) == <<ISqrt(a[1]), ISqrt(a[2])>>

\* np.pi, a fixed rational in the program too (a double); 22/7 stands for it
PI == Rat(22, 7)
TwoPi == RMul(Two, PI)

(***************************************************************************)
(* Dual numbers <<value, derivative>>.                                     *)
(***************************************************************************)
DC(a) == <<a, Zero>>
DVar(a) == <<a, One>>
Val(x) == x[1]
Der(x) == x[2]
DZero == DC(Zero)
DOne == DC(One)

\* the operations on dual numbers, with the cases of a zero or unit operand
\* decided first
DAdd(x, y) ==
    IF x = DZero THEN y
    ELSE IF y = DZero THEN x
    ELSE <<RAdd(x[1], y[1]), RAdd(x[2], y[2])>>
DSub(x, y) ==
    IF y = DZero THEN x
    ELSE <<RSub(x[1], y[1]), RSub(x[2], y[2])>>
DMul(x, y) ==
    IF x = DZero THEN DZero
    ELSE IF y = DZero THEN DZero
    ELSE <<RMul(x[1], y[1]), RAdd(RMul(x[1], y[2]), RMul(x[2], y[1]))>>
DDiv(x, y) ==
    IF y = DOne THEN x
    ELSE <<RDiv(x[1], y[1]),
           RDiv(RSub(RMul(x[2], y[1]), RMul(x[1], y[2])), RSq(y[1]))>>
DSq(x) == DMul(x, x)

\* sum of f[1..n]
RECURSIVE RProd(_)
RProd(fs) == IF fs = <<>> THEN One ELSE RMul(Head(fs), RProd(Tail(fs)))
RECURSIVE RSum(_, _)
RSum(f, n) == IF n = 0 THEN Zero ELSE IF n = 1 THEN f[1] ELSE RAdd(f[n], RSum(f, n - 1))
RECURSIVE DSum(_, _)
DSum(f, n) == IF n = 0 THEN DZero ELSE IF n = 1 THEN f[1] ELSE DAdd(f[n], DSum(f, n - 1))

\* the value of a set with one element; the({f(x) : x \in {e}}) is f(e) with e
\* computed before f is entered
the(s) == CHOOSE x \in s : TRUE

\* vectors are sequences, matrices are sequences of rows; V and M build them
\* with every entry computed once
V(v) == IF DOMAIN v = {} THEN <<>> ELSE v \o <<>>
M(A) == V([i \in DOMAIN A |-> V(A[i])])
VVal(v) == V([i \in DOMAIN v |-> Val(v[i])])
VDC(v) == V([i \in DOMAIN v |-> DC(v[i])])
\* v[i] = x, in place: the array v with entry (or row) i replaced by x
setitem(v, i, x) == [q \in DOMAIN v |-> IF q = i THEN x ELSE v[q]]
Zeros(n) == [i \in 1..n |-> Zero]
Zeros2(n, m) == [i \in 1..n |-> [j \in 1..m |-> Zero]]
\* row @ vector
RDot(row, v, n) == RSum([j \in 1..n |-> RMul(row[j], v[j])], n)
DDot(row, v, n) == DSum([j \in 1..n |-> DMul(DC(row[j]), v[j])], n)
\* A @ B for A with n columns and B with n rows and m columns
MatMul(A, B, n, m) ==
    [i \in DOMAIN A |-> [j \in 1..m |->
        RSum([l \in 1..n |-> RMul(A[i][l], B[l][j])], n)]]
MatAdd(A, B) == [i \in DOMAIN A |-> [j \in DOMAIN A[i] |-> RAdd(A[i][j], B[i][j])]]
\* np.diag(v) for a vector v on the index set of v
Diag(v) == [i \in DOMAIN v |-> [j \in DOMAIN v |-> IF i = j THEN v[i] ELSE Zero]]
\* np.diag(v) @ B: row i of B scaled by v[i]
DiagMul(v, B) == [i \in DOMAIN v |-> [j \in DOMAIN B[i] |-> RMul(v[i], B[i][j])]]

(***************************************************************************)
(* The grid context of the Experiment base class: N radial nodes r in     *)
(* [0,1] with r[0] = 0 and r[-1] = 1, the finite-difference operator D    *)
(* and the quadrature weights w (trapezoidal rule).                        *)
(***************************************************************************)
r(n) == V([i \in 1..n |-> IF n = 1 THEN Zero ELSE Rat(i - 1, n - 1)])

D(n) ==
    [i \in 1..n |-> [j \in 1..n |->
        IF n = 1 THEN Zero
        ELSE IF n = 2 THEN (IF j = 1 THEN RInt(-1) ELSE One)
        ELSE LET c == Rat(n - 1, 2)
             IN  IF i = 1
                 THEN (IF j = 1 THEN RMul(RInt(-3), c)
                       ELSE IF j = 2 THEN RMul(RInt(4), c)
                       ELSE IF j = 3 THEN RNeg(c) ELSE Zero)
                 ELSE IF i = n
                 THEN (IF j = n THEN RMul(RInt(3), c)
                       ELSE IF j = n - 1 THEN RMul(RInt(-4), c)
                       ELSE IF j = n - 2 THEN c ELSE Zero)
                 ELSE (IF j = i + 1 THEN c
                       ELSE IF j = i - 1 THEN RNeg(c) ELSE Zero)]]

w(n) ==
    [i \in 1..n |->
        IF n = 1 THEN One
        ELSE IF i = 1 \/ i = n THEN Rat(1, 2 * (n - 1)) ELSE Rat(1, n - 1)]

\* the index ranges of X and FUN: ind_u = 0..N-1, ind_p = N..2N-1, ind_l = 2N
ind_u(n) == [i \in 1..n |-> i]
ind_p(n) == [i \in 1..n |-> n + i]
ind_l(n) == 2 * n + 1

(***************************************************************************)
(* numpy values that carry their shape: <<>> a scalar, <<n>> a vector,     *)
(* <<n, n>> a matrix.  Only the values crossing the mechanics interface    *)
(* are tagged; the assembly code indexes them as the shape allows.         *)
(***************************************************************************)
Arr(shape, a) == [shape |-> shape, a |-> a]
Scalar(x) == Arr(<<>>, x)
Vec(v, n) == Arr(<<n>>, V(v))
Mat(A, n) == Arr(<<n, n>>, M(A))
\* element i of a scalar or a vector under numpy broadcasting
At(x, i) == IF x.shape = <<>> THEN x.a ELSE x.a[i]
np_zeros(n) == Vec(Zeros(n), n)
\* np.diag of a 1-D array: the matrix with it on the diagonal
np_diag(x) == Mat(Diag(x.a), x.shape[1])

(***************************************************************************)
(* Constitutive models.  The stresses S_i = dW/dlam_i and the nine stress  *)
(* derivatives are compiled by the Hyperelastic base class from the        *)
(* strain energy W.  Two energies are modelled, both rational so that the  *)
(* arithmetic stays exact:                                                 *)
(*   "FibreReinforcedNH": W = W_nH + W_f, W_nH = (I_1 - 2 log J)/2 the     *)
(*      neo-Hookean matrix and W_f = (lam_r lam_t - 1)^2/2 an in-plane,    *)
(*      symmetric, stress-free-at-rest energy standing for the fibres      *)
(*      (the program's W_f is an elliptic integral of the same arguments); *)
(*   "Hyperelastic": W = W_nH + (J - 1)^2/2, a compressible neo-Hookean    *)
(*      energy evaluated by the base class, whose axial stress depends on  *)
(*      the in-plane stretches.                                            *)
(***************************************************************************)
MechModels == {"FibreReinforcedNH", "Hyperelastic"}

S_nH(a) == DSub(a, DDiv(DOne, a))

\* S_r, S_t, S_z at one node, over dual numbers (x = "r", "t" or "z")
S_fn(m, x, a, b, c) ==
    LET J_ == DMul(DMul(a, b), c)
        own == IF x = "r" THEN a ELSE IF x = "t" THEN b ELSE c
        oth == IF x = "r" THEN DMul(b, c)
               ELSE IF x = "t" THEN DMul(a, c) ELSE DMul(a, b)
    IN  IF m = "Hyperelastic"
        THEN DAdd(S_nH(own), DMul(DSub(J_, DOne), oth))
        ELSE IF x = "z" THEN S_nH(c)
        ELSE DAdd(S_nH(own),
                  DMul(DSub(DMul(a, b), DOne), IF x = "r" THEN b ELSE a))

\* dS_x/dlam_y at one node: the exact derivative of the compiled stress
S_d_fn(m, x, y, a, b, c) ==
    Der(S_fn(m, x,
             IF y = "r" THEN DVar(a) ELSE DC(a),
             IF y = "t" THEN DVar(b) ELSE DC(b),
             IF y = "z" THEN DVar(c) ELSE DC(c)))

\* whether S_x depends on the in-plane stretches (decides the shape of a
\* compiled closure applied to vector lam_r, lam_t and a scalar lam_z)
InPlane(m, x) == m = "Hyperelastic" \/ x # "z"

\* eval_stress(lam_r, lam_t, lam_z): S_r, S_t, S_z over the nodes; lam_r and
\* lam_t are vectors of dual numbers, lam_z one dual number
eval_stress(m, lam_r_, lam_t_, lam_z_) ==
    [r |-> V([i \in 1..Len(lam_r_) |-> S_fn(m, "r", lam_r_[i], lam_t_[i], lam_z_)]),
     t |-> V([i \in 1..Len(lam_r_) |-> S_fn(m, "t", lam_r_[i], lam_t_[i], lam_z_)]),
     z |-> V([i \in 1..Len(lam_r_) |-> S_fn(m, "z", lam_r_[i], lam_t_[i], lam_z_)])]

\* a compiled closure S_x_y(lam_r, lam_t, lam_z): elementwise, of the
\* broadcast shape of the arguments it depends on
S_closure(m, x, y, lam_r_, lam_t_, lam_z_) ==
    LET n == Len(lam_r_)
    IN  IF InPlane(m, x)
        THEN Vec([i \in 1..n |->
                    S_d_fn(m, x, y, lam_r_[i], lam_t_[i], At(lam_z_, i))], n)
        ELSE IF lam_z_.shape = <<>>
        THEN Scalar(S_d_fn(m, x, y, lam_r_[1], lam_t_[1], lam_z_.a))
        ELSE Vec([i \in 1..Len(lam_z_.a) |->
                    S_d_fn(m, x, y, lam_r_[1], lam_t_[1], lam_z_.a[i])],
                 Len(lam_z_.a))

\* an override returning (N,N) zero matrices for the vanishing couplings
FibreReinforcedNH_eval_stress_derivatives_square(lam_r_, lam_t_, lam_z_) ==
    LET n == Len(lam_r_)
        m == "FibreReinforcedNH"
    IN  << np_diag(S_closure(m, "r", "r", lam_r_, lam_t_, lam_z_)),
           np_diag(S_closure(m, "r", "t", lam_r_, lam_t_, lam_z_)),
           Mat(Zeros2(n, n), n),
           np_diag(S_closure(m, "t", "r", lam_r_, lam_t_, lam_z_)),
           np_diag(S_closure(m, "t", "t", lam_r_, lam_t_, lam_z_)),
           Mat(Zeros2(n, n), n),
           Mat(Zeros2(n, n), n),
           Mat(Zeros2(n, n), n),
           S_closure(m, "z", "z", lam_r_, lam_t_, lam_z_) >>

\* FibreReinforcedNH.eval_stress_derivatives
FibreReinforcedNH_eval_stress_derivatives(lam_r_, lam_t_, lam_z_) ==
    LET n == Len(lam_r_)
        m == "FibreReinforcedNH"
    IN  << np_diag(S_closure(m, "r", "r", lam_r_, lam_t_, lam_z_)),
           np_diag(S_closure(m, "r", "t", lam_r_, lam_t_, lam_z_)),
           np_zeros(n),
           np_diag(S_closure(m, "t", "r", lam_r_, lam_t_, lam_z_)),
           np_diag(S_closure(m, "t", "t", lam_r_, lam_t_, lam_z_)),
           np_zeros(n),
           np_zeros(n),
           np_zeros(n),
           S_closure(m, "z", "z", lam_r_, lam_t_, lam_z_) >>

\* Hyperelastic.eval_stress_derivatives of the base class
Hyperelastic_eval_stress_derivatives(lam_r_, lam_t_, lam_z_) ==
    LET m == "Hyperelastic"
    IN  << np_diag(S_closure(m, "r", "r", lam_r_, lam_t_, lam_z_)),
           np_diag(S_closure(m, "r", "t", lam_r_, lam_t_, lam_z_)),
           S_closure(m, "r", "z", lam_r_, lam_t_, lam_z_),
           np_diag(S_closure(m, "t", "r", lam_r_, lam_t_, lam_z_)),
           np_diag(S_closure(m, "t", "t", lam_r_, lam_t_, lam_z_)),
           S_closure(m, "t", "z", lam_r_, lam_t_, lam_z_),
           S_closure(m, "z", "r", lam_r_, lam_t_, lam_z_),
           S_closure(m, "z", "t", lam_r_, lam_t_, lam_z_),
           S_closure(m, "z", "z", lam_r_, lam_t_, lam_z_) >>

eval_stress_derivatives(m, lam_r_, lam_t_, lam_z_) ==
    IF m = "FibreReinforcedNH"
    THEN FibreReinforcedNH_eval_stress_derivatives(lam_r_, lam_t_, lam_z_)
    ELSE Hyperelastic_eval_stress_derivatives(lam_r_, lam_t_, lam_z_)

(***************************************************************************)
(* Permeability model: k(J) = (1 + J)/2, with its exact derivative.        *)
(***************************************************************************)
k_fn(Jd) == DDiv(DAdd(DOne, Jd), DC(Two))
eval_permeability(J_) == V([i \in 1..Len(J_) |-> Val(k_fn(DC(J_[i])))])
eval_permeability_derivative(J_) == V([i \in 1..Len(J_) |-> Der(k_fn(DVar(J_[i])))])

(***************************************************************************)
(* Kinematics of the Experiment base class: lam_r = 1 + D u,               *)
(* lam_t = 1 + u/r (lam_t = lam_r at the centre), J = lam_r lam_t lam_z,   *)
(* and the linear maps lam_r_u, lam_t_u, J_u, J_l the Jacobian uses.       *)
(***************************************************************************)
compute_lam_r(n, ud) == V([i \in 1..n |-> DAdd(DOne, DDot(D(n)[i], ud, n))])
compute_lam_t(n, ud) ==
    V([i \in 1..n |->
        IF i = 1 THEN DAdd(DOne, DDot(D(n)[1], ud, n))
        ELSE DAdd(DOne, DDiv(ud[i], DC(r(n)[i])))])
compute_J(n, lrd, ltd, lzd) == V([i \in 1..n |-> DMul(DMul(lrd[i], ltd[i]), lzd)])

lam_r_u(n) == M(D(n))
lam_t_u(n) ==
    M([i \in 1..n |-> [j \in 1..n |->
        IF i = 1 THEN D(n)[1][j]
        ELSE IF i = j THEN RInv(r(n)[i]) ELSE Zero]])
J_u_of(n, lr, lt, lz) ==
    M(MatAdd(DiagMul([i \in 1..n |-> RMul(lt[i], lz)], lam_r_u(n)),
             DiagMul([i \in 1..n |-> RMul(lr[i], lz)], lam_t_u(n))))
J_l_of(n, lr, lt) == V([i \in 1..n |-> RMul(lr[i], lt[i])])

(***************************************************************************)
(* ForceControlled.build_residual, over dual numbers.  The arguments of    *)
(* build_residual_D are the fields the method reads; the result holds the  *)
(* fields it writes.  div_S has the N-2 entries of the interior nodes:     *)
(* entry q belongs to node q+1.  F_u and F_p are written in the order of   *)
(* the code's assignments, a later assignment overwriting an earlier one   *)
(* to the same entry.                                                      *)
(***************************************************************************)
\* the statements after the stresses, the permeability, div_S and dLdt
residual_fields(n, ud, pd, lrd, ltd, Jd, Ftarget, S_r, S_z, k, div_S_, dLdt_, rr, DD, ww) ==
    LET F_u0 == [i \in 1..n |-> DZero]
        F_u1 == [i \in 1..n |->
                    IF i \in 2..(n - 1)
                    THEN DSub(DMul(DC(RDiv(rr[i], Two)), dLdt_[i]),
                              DMul(DDiv(k[i], lrd[i]), div_S_[i - 1]))
                    ELSE F_u0[i]]
        F_u2 == setitem(F_u1, 1, ud[1])
        F_u3 == V(setitem(F_u2, n, S_r[n]))
        F_p0 == [i \in 1..n |-> DZero]
        F_p1 == [i \in 1..n |->
                    IF i \in 1..(n - 1)
                    THEN DSub(DDot(DD[i], pd, n),
                              DMul(DDiv(DDiv(DDiv(DMul(DC(rr[i]), DSq(lrd[i])),
                                                  DC(Two)), k[i]), Jd[i]),
                                   dLdt_[i]))
                    ELSE F_p0[i]]
        F_p2 == V(setitem(F_p1, n, pd[n]))
        F_l_ == DSub(DMul(DC(TwoPi),
                          DSum([i \in 1..n |->
                                  DMul(DMul(DC(ww[i]),
                                            DSub(S_z[i],
                                                 DMul(DMul(lrd[i], ltd[i]), pd[i]))),
                                       DC(rr[i]))], n)),
                     DC(Ftarget))
    IN  [div_S |-> div_S_, dLdt |-> dLdt_, F_u |-> F_u3, F_p |-> F_p2,
         F_l |-> F_l_,
         FUN |-> V([q \in 1..(2 * n + 1) |->
                    IF q <= n THEN F_u3[q]
                    ELSE IF q <= 2 * n THEN F_p2[q - n] ELSE F_l_])]

\* the statements after the stresses and the permeability
residual_cached(n, ud, pd, lrd, ltd, lzd, Jd, lto, lzo, dt_, Ftarget, S, k, rr, DD, ww) ==
    the({ residual_fields(n, ud, pd, lrd, ltd, Jd, Ftarget, S.r, S.z, k,
                          div_S_, dLdt_, rr, DD, ww) :
        \* self.div_S = D[1:-1,:] @ S_r + (S_r[1:-1] - S_t[1:-1]) / r[1:-1]
        div_S_ \in {V([q \in 1..(n - 2) |->
            DAdd(DDot(DD[q + 1], S.r, n),
                 DDiv(DSub(S.r[q + 1], S.t[q + 1]), DC(rr[q + 1])))])},
        \* self.dLdt = 1 / dt * (lam_t**2 * lam_z - lam_t_old**2 * lam_z_old)
        dLdt_ \in {V([i \in 1..n |->
            DMul(DC(RInv(dt_)),
                 DSub(DMul(DSq(ltd[i]), lzd),
                      DC(RMul(RSq(lto[i]), lzo))))])} })

build_residual_D(n, m, ud, pd, lrd, ltd, lzd, Jd, lto, lzo, dt_, Ftarget) ==
    the({ residual_cached(n, ud, pd, lrd, ltd, lzd, Jd, lto, lzo, dt_, Ftarget,
                          S, k, rr, DD, ww) :
        S \in {eval_stress(m, lrd, ltd, lzd)},
        k \in {V([i \in 1..n |-> k_fn(Jd[i])])},
        rr \in {V(r(n))}, DD \in {M(D(n))}, ww \in {V(w(n))} })

(***************************************************************************)
(* What build_jacobian needs of the nine stress derivatives for its        *)
(* products, slices and assignments to have matching dimensions: the four  *)
(* in-plane ones are multiplied with the (N,N) maps lam_r_u, lam_t_u and   *)
(* sliced by rows; S_r_z and S_t_z are multiplied by D and their entries   *)
(* assigned to entries of the column J_ul; S_z_z is broadcast against the  *)
(* weights; S_z_r and S_z_t are not used.                                  *)
(***************************************************************************)
build_jacobian_accepts(S, n) ==
    /\ \A q \in {1, 2, 4, 5} : S[q].shape = <<n, n>>
    /\ \A q \in {3, 6} : S[q].shape = <<n>>
    /\ S[9].shape \in {<<>>, <<n>>}

(***************************************************************************)
(* ForceControlled.build_jacobian.  e is the record of the fields the      *)
(* method reads (div_S and dLdt as build_residual last stored them, the    *)
(* blocks as they are); the result holds the blocks it writes and JAC.     *)
(***************************************************************************)
\* np.block([[J_uu, J_up, J_ul], [J_pu, J_pp, J_pl], [J_lu, J_lp, J_ll]])
np_block(n, uu, up, ul, pu, pp, pl, lu, lp, ll) ==
    M([a \in 1..(2 * n + 1) |-> [b \in 1..(2 * n + 1) |->
        IF a <= n
        THEN (IF b <= n THEN uu[a][b]
              ELSE IF b <= 2 * n THEN up[a][b - n] ELSE ul[a])
        ELSE IF a <= 2 * n
        THEN (IF b <= n THEN pu[a - n][b]
              ELSE IF b <= 2 * n THEN pp[a - n][b - n] ELSE pl[a - n])
        ELSE (IF b <= n THEN lu[b]
              ELSE IF b <= 2 * n THEN lp[b - n] ELSE ll)]])

jacobian_result(e, uu, ul, pu, pl, lu, lp, ll) ==
    [J_uu |-> uu, J_ul |-> ul, J_pu |-> pu, J_pl |-> pl,
     J_lu |-> lu, J_lp |-> lp, J_ll |-> ll,
     JAC |-> np_block(e.N, uu, e.J_up, ul, pu, e.J_pp, pl, lu, lp, ll)]

\* the statements of build_jacobian after the stress derivatives, the
\* permeability and the products G = S_r_r @ lam_r_u + S_r_t @ lam_t_u and
\* H = S_t_r @ lam_r_u + S_t_t @ lam_t_u
jacobian_blocks(e, S_r_z, S_t_z, S_z_z, k, k_J, Lru, Ltu, Ju, Jl, G, H, rr, DD, ww) ==
    LET n == e.N
        lr == e.lam_r
        lt == e.lam_t
        lz == e.lam_z
        JJ == e.J
        int == 2..(n - 1)
        \* diff d/dt stuff
        uu1(i, j) == RProd(<<RDiv(RMul(lz, rr[i]), e.dt), lt[i], Ltu[i][j]>>)
        \* diff effective perm
        uu2(i, j) ==
            RSub(uu1(i, j),
                 RMul(e.div_S[i - 1],
                      RSub(RMul(RDiv(k_J[i], lr[i]), Ju[i][j]),
                           RMul(RDiv(k[i], RSq(lr[i])), Lru[i][j]))))
        \* diff div(S)
        uu3(i, j) ==
            RSub(uu2(i, j),
                 RMul(RDiv(k[i], lr[i]),
                      RAdd(RSum([l \in 1..n |-> RMul(DD[i][l], G[l][j])], n),
                           RMul(RInv(rr[i]), RSub(G[i][j], H[i][j])))))
        ul1(i) ==
            RSub(RSub(RMul(RDiv(RDiv(rr[i], Two), e.dt), RSq(lt[i])),
                      RMul(RDiv(RMul(k_J[i], Jl[i]), lr[i]), e.div_S[i - 1])),
                 RMul(RDiv(k[i], lr[i]),
                      RAdd(RDot(DD[i], S_r_z, n),
                           RDiv(RSub(S_r_z[i], S_t_z[i]), rr[i]))))
        \* rows 1:-1 of J_uu and J_ul, then the boundary row -1
        J_uu_a == [i \in 1..n |->
                    IF i \in int THEN [j \in 1..n |-> uu3(i, j)] ELSE e.J_uu[i]]
        J_ul_a == [i \in 1..n |-> IF i \in int THEN ul1(i) ELSE e.J_ul[i]]
        J_uu_b == setitem(J_uu_a, n, [j \in 1..n |-> G[n][j]])
        J_ul_b == setitem(J_ul_a, n, S_r_z[n])
        \* pressure
        pu(i, j) ==
            RNeg(
              RAdd(
                RSub(
                  RSub(
                    RMul(RDiv(RDiv(RProd(<<rr[i], lr[i], e.dLdt[i]>>), k[i]), JJ[i]),
                         Lru[i][j]),
                    RMul(RDiv(RDiv(RDiv(RProd(<<rr[i], RSq(lr[i]), k_J[i], e.dLdt[i]>>),
                                        Two), RSq(k[i])), JJ[i]),
                         Ju[i][j])),
                  RMul(RDiv(RDiv(RDiv(RProd(<<rr[i], RSq(lr[i]), e.dLdt[i]>>),
                                      Two), k[i]), RSq(JJ[i])),
                       Ju[i][j])),
                RMul(RDiv(RDiv(RDiv(RProd(<<rr[i], RSq(lr[i]), lt[i], lz>>),
                                    k[i]), JJ[i]), e.dt),
                     Ltu[i][j])))
        pl(i) ==
            RNeg(
              RAdd(
                RSub(
                  RMul(RDiv(RDiv(RDiv(RProd(<<RNeg(rr[i]), RSq(lr[i]), k_J[i], Jl[i]>>),
                                      Two), RSq(k[i])), JJ[i]),
                       e.dLdt[i]),
                  RMul(RDiv(RDiv(RDiv(RProd(<<rr[i], RSq(lr[i]), Jl[i]>>),
                                      Two), k[i]), RSq(JJ[i])),
                       e.dLdt[i])),
                RMul(RDiv(RDiv(RDiv(RDiv(RMul(rr[i], RSq(lr[i])), Two), k[i]),
                               JJ[i]), e.dt),
                     RSq(lt[i]))))
        J_pu_a == [i \in 1..n |->
                    IF i \in 1..(n - 1) THEN [j \in 1..n |-> pu(i, j)] ELSE e.J_pu[i]]
        J_pl_a == [i \in 1..n |-> IF i \in 1..(n - 1) THEN pl(i) ELSE e.J_pl[i]]
        \* axial stretch
        J_lu_a == [j \in 1..n |->
                    RMul(RNeg(TwoPi),
                         RSum([i \in 1..n |->
                                 RMul(ww[i],
                                      RAdd(RMul(RProd(<<lt[i], e.p[i], rr[i]>>), Lru[i][j]),
                                           RMul(RProd(<<lr[i], e.p[i], rr[i]>>), Ltu[i][j])))],
                              n))]
        J_lp_a == [j \in 1..n |->
                    RProd(<<RNeg(TwoPi), ww[j], lr[j], lt[j], rr[j]>>)]
        J_ll_a == RMul(TwoPi,
                       RSum([i \in 1..n |-> RProd(<<ww[i], At(S_z_z, i), rr[i]>>)], n))
    IN  jacobian_result(e, M(J_uu_b), V(J_ul_b), M(J_pu_a), V(J_pl_a),
                        V(J_lu_a), V(J_lp_a), J_ll_a)

\* the statements after the stress derivatives and the permeability
jacobian_products(e, dS, k, k_J, Lru, Ltu, rr, DD, ww) ==
    the({ jacobian_blocks(e, dS[3].a, dS[6].a, dS[9], k, k_J, Lru, Ltu,
                          Ju, Jl, G, H, rr, DD, ww) :
        Ju \in {J_u_of(e.N, e.lam_r, e.lam_t, e.lam_z)},
        Jl \in {J_l_of(e.N, e.lam_r, e.lam_t)},
        G \in {M(MatAdd(MatMul(dS[1].a, Lru, e.N, e.N),
                        MatMul(dS[2].a, Ltu, e.N, e.N)))},
        H \in {M(MatAdd(MatMul(dS[4].a, Lru, e.N, e.N),
                        MatMul(dS[5].a, Ltu, e.N, e.N)))} })

build_jacobian(e) ==
    the({ jacobian_products(e, dS, k, k_J, Lru, Ltu, rr, DD, ww) :
        dS \in {eval_stress_derivatives(e.mech, e.lam_r, e.lam_t, Scalar(e.lam_z))},
        k \in {eval_permeability(e.J)},
        k_J \in {eval_permeability_derivative(e.J)},
        Lru \in {lam_r_u(e.N)}, Ltu \in {lam_t_u(e.N)},
        rr \in {V(r(e.N))}, DD \in {M(D(e.N))}, ww \in {V(w(e.N))} })

(***************************************************************************)
(* State.  The fields of one ForceControlled experiment, the position of   *)
(* each solve, and the inputs and outputs of the mechanics evaluation.     *)
(***************************************************************************)
VARIABLES
    N, mech, F_target,                  \* grid size, self.mech, pars.physical["F"]
    u, p, lam_z, lam_r, lam_t, J,       \* unknowns and kinematic fields
    lam_t_old, lam_z_old, dt,           \* time-stepping state
    div_S, dLdt, F_u, F_p, F_l, FUN,    \* written by build_residual
    J_uu, J_up, J_ul, J_pu, J_pp, J_pl, \* Jacobian blocks
    J_lu, J_lp, J_ll, JAC,
    exc,                                \* the exception the last call raised, or "none"
    resid_calls,                        \* build_residual calls since the last state
                                        \* change (counted up to MaxCalls)
    jac_after,                          \* what the last build_jacobian since the last
                                        \* state change followed: "none" (there was
                                        \* none), "fresh" (a build_residual since the
                                        \* change) or "stale" (no such build_residual)
    F, fluid_load_fraction,             \* written by compute_force and
                                        \* compute_fluid_load_fraction
    osmosis,                            \* the osmosis model of the Hydration object
    method, pc,                         \* the solve method last called, and whether
                                        \* it is "idle" or inside the root finder
    sol_t1,                             \* sol.t[1] handed to set_initial_guess
    trials, last_trial,                 \* evaluations of fun by the root finder in
                                        \* this call, and the last trial value
    rootres,                            \* what the root finder returned
    ret,                                \* what the method returned
    arg_lam_r, arg_lam_t, arg_lam_z,    \* arguments of a stress-derivative evaluation
    derivs                              \* and the nine outputs it returned

exp_vars == <<N, mech, F_target>>
state_vars == <<u, p, lam_z, lam_r, lam_t, J>>
time_vars == <<lam_t_old, lam_z_old, dt>>
resid_vars == <<div_S, dLdt, F_u, F_p, F_l, FUN>>
jac_vars == <<J_uu, J_up, J_ul, J_pu, J_pp, J_pl, J_lu, J_lp, J_ll, JAC>>
hist_vars == <<resid_calls, jac_after>>
\* build_residual ran since the last state change
resid_current == resid_calls > 0
asm_vars == <<exp_vars, state_vars, time_vars, resid_vars, jac_vars, exc, hist_vars>>
force_vars == <<F, fluid_load_fraction>>
solve_vars == <<osmosis, method, pc, sol_t1, trials, last_trial, rootres, ret>>
mech_vars == <<arg_lam_r, arg_lam_t, arg_lam_z, derivs>>
vars == <<asm_vars, force_vars, solve_vars, mech_vars>>
\* the part of the state the assembly methods and the driver leave alone
asm_frame == <<force_vars, solve_vars, mech_vars>>

(***************************************************************************)
(* The unknown vectors the driver hands to the experiment: u = a0 + a2 r^2,*)
(* p = p0 + p1 r, lam_z = lz, for the parameter tuples below.  The first   *)
(* is the state at rest; the second and third differ in p only and do not  *)
(* obey the boundary conditions (a Newton iterate need not).               *)
(***************************************************************************)
Iterates ==
    { <<Zero, Zero, Zero, Zero, One>>,
      <<One, One, One, One, Rat(1, 2)>>,
      <<One, One, Two, RInt(-1), Rat(1, 2)>> }

u_of(n, t) == [i \in 1..n |-> RAdd(t[1], RMul(t[2], RSq(r(n)[i])))]
p_of(n, t) == [i \in 1..n |-> RAdd(t[3], RMul(t[4], r(n)[i]))]
\* the step size the driver continues with
TimeSteps == {Two}

\* the fields as one record, as the methods read them
Exp ==
    [N |-> N, mech |-> mech, F_target |-> F_target,
     u |-> u, p |-> p, lam_z |-> lam_z, lam_r |-> lam_r, lam_t |-> lam_t, J |-> J,
     lam_t_old |-> lam_t_old, lam_z_old |-> lam_z_old, dt |-> dt,
     div_S |-> div_S, dLdt |-> dLdt,
     J_uu |-> J_uu, J_up |-> J_up, J_ul |-> J_ul,
     J_pu |-> J_pu, J_pp |-> J_pp, J_pl |-> J_pl]

\* the residual of the fields as they are (no unknown is differentiated)
residual_of(e) ==
    the({ build_residual_D(e.N, e.mech, ud, pd, lrd, ltd, DC(e.lam_z), Jd,
                           e.lam_t_old, e.lam_z_old, e.dt, e.F_target) :
        ud \in {VDC(e.u)}, pd \in {VDC(e.p)},
        lrd \in {VDC(e.lam_r)}, ltd \in {VDC(e.lam_t)}, Jd \in {VDC(e.J)} })

\* the fields with div_S and dLdt as a build_residual at these fields stores
\* them, the Jacobian build_jacobian then produces, and whether the stored
\* div_S and dLdt are already those
with_fresh_cache(e, R) == [e EXCEPT !.div_S = VVal(R.div_S), !.dLdt = VVal(R.dLdt)]
current_jacobian(e) == build_jacobian(with_fresh_cache(e, residual_of(e))).JAC
cache_is_current(e, R) == e.div_S = VVal(R.div_S) /\ e.dLdt = VVal(R.dLdt)

(***************************************************************************)
(* Construction: Experiment.__init__ (grid, kinematic fields at rest,      *)
(* J_uu and J_pp with their constant boundary rows) followed by            *)
(* ForceControlled.__init__ (the zero residual vectors and blocks).        *)
(***************************************************************************)
InitExperiment ==
    /\ N \in 1..MaxN
    /\ mech \in MechModels
    /\ F_target = RInt(-1)

InitUnknowns ==
    /\ u = Zeros(N) /\ p = Zeros(N) /\ lam_z = One
    /\ lam_r = [i \in 1..N |-> One] /\ lam_t = [i \in 1..N |-> One]

InitBlocks ==
    /\ J = [i \in 1..N |-> One]
    /\ lam_t_old = [i \in 1..N |-> One] /\ lam_z_old = One /\ dt = One
    /\ div_S = <<>> /\ dLdt = <<>>
    /\ F_u = Zeros(N) /\ F_p = Zeros(N) /\ F_l = Zero
    /\ FUN = Zeros(2 * N + 1)
    /\ J_uu = [i \in 1..N |-> [j \in 1..N |-> IF i = 1 /\ j = 1 THEN One ELSE Zero]]
    /\ J_up = Zeros2(N, N)
    /\ J_ul = Zeros(N)
    /\ J_pu = Zeros2(N, N)
    /\ J_pp = [i \in 1..N |-> [j \in 1..N |->
                 IF i = N THEN (IF j = N THEN One ELSE Zero) ELSE D(N)[i][j]]]
    /\ J_pl = Zeros(N)
    /\ J_lu = Zeros(N) /\ J_lp = Zeros(N) /\ J_ll = Zero
    /\ JAC = Zeros2(2 * N + 1, 2 * N + 1)
    /\ exc = "none"
    /\ resid_calls = 0
    /\ jac_after = "none"

\* no solve method has been called
NoSolve ==
    /\ F = Zero /\ fluid_load_fraction = Zero
    /\ method = "none" /\ pc = "idle"
    /\ sol_t1 = One
    /\ trials = 0 /\ last_trial = <<>>
    /\ rootres = [called |-> FALSE, converged |-> FALSE, root |-> <<>>]
    /\ ret = [kind |-> "nothing", val |-> <<>>]

\* no stress-derivative evaluation has been asked for
NoEvaluation ==
    /\ arg_lam_r = <<>> /\ arg_lam_t = <<>> /\ arg_lam_z = Scalar(One)
    /\ derivs = <<>>

InitAssembly ==
    /\ InitExperiment /\ InitUnknowns /\ InitBlocks
    /\ NoSolve /\ osmosis = "NoOsmosis" /\ NoEvaluation

(***************************************************************************)
(* The outer driver (external): it stores a new iterate X = [u, p, lam_z]  *)
(* and the kinematic fields derived from it, or it moves to the next time  *)
(* step, keeping the current stretches as the old ones.                    *)
(***************************************************************************)
store_state(n, ud, pd, lzd) ==
    \E lrd \in {compute_lam_r(n, ud)}, ltd \in {compute_lam_t(n, ud)} :
        /\ u' = VVal(ud)
        /\ p' = VVal(pd)
        /\ lam_z' = Val(lzd)
        /\ lam_r' = VVal(lrd)
        /\ lam_t' = VVal(ltd)
        /\ J' = VVal(compute_J(n, lrd, ltd, lzd))

SetState(t) ==
    /\ \E ud \in {VDC(u_of(N, t))}, pd \in {VDC(p_of(N, t))} :
           store_state(N, ud, pd, DC(t[5]))
    /\ <<u', p', lam_z'>> # <<u, p, lam_z>>
    /\ resid_calls' = 0
    /\ jac_after' = "none"
    /\ UNCHANGED <<exp_vars, time_vars, resid_vars, jac_vars, exc, asm_frame>>

NextTimeStep(h) ==
    /\ lam_t_old' = lam_t
    /\ lam_z_old' = lam_z
    /\ dt' = h
    /\ <<lam_t_old', lam_z_old', dt'>> # <<lam_t_old, lam_z_old, dt>>
    /\ resid_calls' = 0
    /\ jac_after' = "none"
    /\ UNCHANGED <<exp_vars, state_vars, resid_vars, jac_vars, exc, asm_frame>>

(***************************************************************************)
(* ForceControlled.build_residual as one step.                             *)
(***************************************************************************)
\* a build_residual that adds to the residual fields instead of assigning them
store_residual_accumulating(R) ==
    /\ div_S' = VVal(R.div_S)
    /\ dLdt' = VVal(R.dLdt)
    /\ F_u' = [i \in 1..N |-> RAdd(F_u[i], Val(R.F_u[i]))]
    /\ F_p' = [i \in 1..N |-> RAdd(F_p[i], Val(R.F_p[i]))]
    /\ F_l' = RAdd(F_l, Val(R.F_l))
    /\ FUN' = [q \in 1..(2 * N + 1) |-> RAdd(FUN[q], Val(R.FUN[q]))]

store_residual(R) ==
    /\ div_S' = VVal(R.div_S)
    /\ dLdt' = VVal(R.dLdt)
    /\ F_u' = VVal(R.F_u)
    /\ F_p' = VVal(R.F_p)
    /\ F_l' = Val(R.F_l)
    /\ FUN' = VVal(R.FUN)

BuildResidual ==
    /\ UNCHANGED <<exp_vars, state_vars, time_vars, jac_vars, jac_after, asm_frame>>
    /\ resid_calls' = IF resid_calls < MaxCalls THEN resid_calls + 1 ELSE resid_calls
    /\ exc' = "none"
    /\ store_residual(residual_of(Exp))

(***************************************************************************)
(* ForceControlled.build_jacobian as one step.  Reading self.div_S before  *)
(* any build_residual has stored it raises AttributeError; stress          *)
(* derivatives of the wrong dimensions raise ValueError; either way the    *)
(* blocks are left as they were.                                           *)
(***************************************************************************)
store_jacobian(B) ==
    /\ J_uu' = B.J_uu /\ J_ul' = B.J_ul
    /\ J_pu' = B.J_pu /\ J_pl' = B.J_pl
    /\ J_lu' = B.J_lu /\ J_lp' = B.J_lp /\ J_ll' = B.J_ll
    /\ JAC' = B.JAC

\* a build_jacobian that computes div_S and dLdt anew and stores them
BuildJacobian_recomputing ==
    /\ UNCHANGED <<exp_vars, state_vars, time_vars, F_u, F_p, F_l, FUN,
                   J_up, J_pp, resid_calls, asm_frame>>
    /\ jac_after' = IF resid_current THEN "fresh" ELSE "stale"
    /\ exc' = "none"
    /\ div_S' = VVal(residual_of(Exp).div_S)
    /\ dLdt' = VVal(residual_of(Exp).dLdt)
    /\ store_jacobian(build_jacobian(with_fresh_cache(Exp, residual_of(Exp))))

BuildJacobian ==
    /\ UNCHANGED asm_frame
    /\ IF dLdt = <<>>
       THEN /\ exc' = "AttributeError"
            /\ UNCHANGED <<exp_vars, state_vars, time_vars, resid_vars, jac_vars,
                           hist_vars>>
       ELSE IF ~build_jacobian_accepts(
                   eval_stress_derivatives(mech, lam_r, lam_t, Scalar(lam_z)), N)
       THEN /\ exc' = "ValueError"
            /\ UNCHANGED <<exp_vars, state_vars, time_vars, resid_vars, jac_vars,
                           hist_vars>>
       ELSE /\ UNCHANGED <<exp_vars, state_vars, time_vars, resid_vars,
                           J_up, J_pp, resid_calls>>
            /\ jac_after' = IF resid_current THEN "fresh" ELSE "stale"
            /\ exc' = "none"
            /\ store_jacobian(build_jacobian(Exp))

NextAssembly ==
    \/ \E t \in Iterates : SetState(t)
    \/ \E h \in TimeSteps : NextTimeStep(h)
    \/ BuildResidual
    \/ BuildJacobian

Spec == InitAssembly /\ [][NextAssembly]_vars

(***************************************************************************)
(* The exact Jacobian of FUN with respect to X = [u, p, lam_z] at the      *)
(* current state: column b is the derivative part of the residual          *)
(* evaluated with unknown b seeded, the kinematic fields following X as    *)
(* the base class derives them.                                            *)
(***************************************************************************)
VDer(v) == V([i \in DOMAIN v |-> Der(v[i])])

exact_from_kinematics(e, ud, pd, lzd, lrd, ltd) ==
    the({ VDer(build_residual_D(e.N, e.mech, ud, pd, lrd, ltd, lzd, Jd,
                                e.lam_t_old, e.lam_z_old, e.dt, e.F_target).FUN) :
        Jd \in {compute_J(e.N, lrd, ltd, lzd)} })

exact_from_seeds(e, ud, pd, lzd) ==
    the({ exact_from_kinematics(e, ud, pd, lzd, lrd, ltd) :
        lrd \in {compute_lam_r(e.N, ud)}, ltd \in {compute_lam_t(e.N, ud)} })

exact_column(e, b) ==
    the({ exact_from_seeds(e, ud, pd, lzd) :
        ud \in {V([i \in 1..e.N |-> IF b = i THEN DVar(e.u[i]) ELSE DC(e.u[i])])},
        pd \in {V([i \in 1..e.N |-> IF b = e.N + i THEN DVar(e.p[i]) ELSE DC(e.p[i])])},
        lzd \in {IF b = 2 * e.N + 1 THEN DVar(e.lam_z) ELSE DC(e.lam_z)} })

transpose(C) == M([a \in 1..Len(C) |-> [b \in 1..Len(C) |-> C[b][a]]])

exact_jacobian(e) ==
    transpose(V([b \in 1..(2 * e.N + 1) |-> exact_column(e, b)]))

(***************************************************************************)
(* Claims about the assembly (specification Spec).                         *)
(***************************************************************************)

\* C1: after build_residual followed by build_jacobian at the same state,
\* JAC is the exact derivative of FUN with respect to X = [u, p, lam_z],
\* for every constitutive model, the axial row J_lu, J_lp, J_ll included.
C1_JacIsExactDerivative ==
    jac_after = "fresh" => JAC = exact_jacobian(Exp)

\* C2: after every build_residual call, for every N (N = 1 included), the
\* first displacement residual is the centre displacement and the last
\* pressure residual is the surface pressure, in F_u, F_p and in FUN.
C2_BoundaryResiduals ==
    resid_current =>
        /\ F_u[1] = u[1] /\ FUN[ind_u(N)[1]] = u[1]
        /\ F_p[N] = p[N] /\ FUN[ind_p(N)[N]] = p[N]

\* C3: build_residual modifies none of its inputs; a second build_residual
\* at an unchanged state leaves FUN, div_S and dLdt (and every other field)
\* as the first left them; and the JAC build_jacobian then produces is the
\* one of the current inputs, however many build_residual calls preceded it.
C3_Idempotent ==
    [][ /\ BuildResidual => UNCHANGED <<exp_vars, state_vars, time_vars>>
        /\ (resid_current /\ BuildResidual) => UNCHANGED <<resid_vars, jac_vars>>
        /\ (resid_current /\ BuildJacobian) => JAC' = current_jacobian(Exp)
      ]_asm_vars

\* C3 happens: build_jacobian has followed two build_residual calls in a row
\* at a deformed state.
C3_Witness ==
    /\ resid_calls = 2 /\ jac_after = "fresh"
    /\ u # Zeros(N) /\ FUN # Zeros(2 * N + 1)

\* C4 as stated: the JAC of a build_jacobian call corresponds to the current
\* state if and only if build_residual was called since the last state
\* change.
C4_CurrentIffResidualCalled ==
    jac_after # "none" => (JAC = current_jacobian(Exp) <=> jac_after = "fresh")

\* C4 as the code has it: build_jacobian leaves div_S and dLdt as the most
\* recent build_residual stored them and builds JAC from them; so JAC is
\* the one of the current state whenever the stored div_S and dLdt are those
\* of the current state, which is so if build_residual was called since the
\* last state change (and also after a change that leaves them as they were).
C4_UsesStoredFields ==
    [][ /\ BuildJacobian => UNCHANGED <<div_S, dLdt>>
        /\ (exc' = "none" /\ BuildJacobian
              /\ cache_is_current(Exp, residual_of(Exp)))
           => JAC' = current_jacobian(Exp)
        /\ resid_current' => cache_is_current(Exp', residual_of(Exp'))
      ]_asm_vars

\* C4 happens: a build_jacobian after a state change without build_residual
\* left a JAC that is not the one of the current state.
C4_Witness ==
    jac_after = "stale" /\ JAC # current_jacobian(Exp)


(***************************************************************************)
(* Second specification: FibreReinforcedNH.eval_stress_derivatives applied *)
(* to stretch arrays of every length up to MaxLen.  lam_r and lam_t are    *)
(* arrays of one length; lam_z is an array of that length or, as           *)
(* build_jacobian passes it, a scalar.  The experiment stays as built.     *)
(***************************************************************************)
Stretches == {One, Two}
StretchVectors(n) == { V(v) : v \in [1..n -> Stretches] }
\* lam_z as a scalar and as an array of length n
ScalarStretches == { Scalar(c) : c \in Stretches }
ArrayStretches(n) == { Vec(v, n) : v \in StretchVectors(n) }

InitMech ==
    /\ InitExperiment /\ N = 1 /\ mech = "FibreReinforcedNH"
    /\ InitUnknowns /\ InitBlocks /\ NoSolve /\ osmosis = "NoOsmosis"
    /\ \E n \in 1..MaxLen :
          /\ arg_lam_r \in StretchVectors(n)
          /\ arg_lam_t \in StretchVectors(n)
          /\ \/ arg_lam_z \in ScalarStretches
             \/ arg_lam_z \in ArrayStretches(n)
    /\ derivs = <<>>

EvalStressDerivatives ==
    /\ derivs = <<>>
    /\ derivs' = FibreReinforcedNH_eval_stress_derivatives(
                     arg_lam_r, arg_lam_t, arg_lam_z)
    /\ UNCHANGED <<arg_lam_r, arg_lam_t, arg_lam_z>>
    /\ UNCHANGED <<asm_vars, force_vars, solve_vars>>

\* the caller moves on to other arguments of the same length
NewArguments ==
    /\ derivs # <<>>
    /\ arg_lam_r' \in StretchVectors(Len(arg_lam_r))
    /\ \/ arg_lam_z' \in ScalarStretches
       \/ arg_lam_z' \in ArrayStretches(Len(arg_lam_r))
    /\ derivs' = <<>>
    /\ UNCHANGED <<arg_lam_t, asm_vars, force_vars, solve_vars>>

NextMech == EvalStressDerivatives \/ NewArguments

SpecMech == InitMech /\ [][NextMech]_vars

\* C5 (as stated): on stretch inputs of length N the four in-plane
\* derivatives are (N,N) diagonal matrices holding the elementwise values,
\* the four vanishing couplings are all-zero (N,N) matrices and S_z_z is a
\* length-N vector.
C5_CouplingsAreMatrices ==
    derivs # <<>> =>
        LET n == Len(arg_lam_r)
        IN  /\ \A q \in {1, 2, 4, 5} : derivs[q].shape = <<n, n>>
            /\ \A q \in {3, 6, 7, 8} :
                   derivs[q].shape = <<n, n>> /\ derivs[q].a = Zeros2(n, n)
            /\ derivs[9].shape = <<n>>

\* the elementwise derivative dS_x/dlam_y at node i of the arguments
C5_value(x, y, i) ==
    S_d_fn("FibreReinforcedNH", x, y, arg_lam_r[i], arg_lam_t[i], At(arg_lam_z, i))

\* C5 (amended): the nine outputs come in the order (S_r_r, S_r_t, S_r_z,
\* S_t_r, S_t_t, S_t_z, S_z_r, S_z_t, S_z_z); the four in-plane derivatives
\* are (N,N) diagonal matrices whose diagonals are the elementwise
\* derivative values; the four vanishing couplings are all-zero vectors of
\* length N; S_z_z has the shape of lam_z (a length-N vector for a length-N
\* lam_z, a scalar for a scalar lam_z) and holds dS_z/dlam_z; and
\* build_jacobian accepts the outputs' dimensions.
C5_DerivativeShapes ==
    derivs # <<>> =>
        LET n == Len(arg_lam_r)
            xy == [q \in {1, 2, 4, 5} |->
                      IF q = 1 THEN <<"r", "r">> ELSE IF q = 2 THEN <<"r", "t">>
                      ELSE IF q = 4 THEN <<"t", "r">> ELSE <<"t", "t">>]
        IN  /\ Len(derivs) = 9
            /\ \A q \in {1, 2, 4, 5} :
                  /\ derivs[q].shape = <<n, n>>
                  /\ \A i, j \in 1..n :
                        derivs[q].a[i][j] =
                            IF i = j THEN C5_value(xy[q][1], xy[q][2], i) ELSE Zero
            /\ \A q \in {3, 6, 7, 8} :
                   derivs[q].shape = <<n>> /\ derivs[q].a = Zeros(n)
            /\ derivs[9].shape = arg_lam_z.shape
            /\ \A i \in 1..n : At(derivs[9], i) = C5_value("z", "z", i)
            /\ build_jacobian_accepts(derivs, n)

\* C5 witness: the derivatives of three nodes with unequal stretches and a
\* length-3 axial stretch have been returned
C5_Witness ==
    /\ derivs # <<>>
    /\ Len(arg_lam_r) = 3
    /\ arg_lam_r # arg_lam_t
    /\ arg_lam_z.shape = <<3>>
    /\ derivs[1].a[1][1] # derivs[1].a[2][2]


(***************************************************************************)
(* Third specification: the solve methods.  ForceControlled's              *)
(* initial_response, steady_response and set_initial_guess and Hydration's *)
(* steady_response each hand a closure fun to a root finder.  The root     *)
(* finder is external: it evaluates fun at trial values of its choosing    *)
(* (at most MaxTrials are told apart) and then reports convergence or not  *)
(* together with a root.  The methods rebind lam_r, lam_t, lam_z and p to  *)
(* scalars and to arrays of length 1, so here the fields carry their       *)
(* shape.                                                                  *)
(***************************************************************************)
\* element i of an array under numpy broadcasting
Bc(x, i) ==
    IF x.shape = <<>> THEN x.a ELSE IF x.shape = <<1>> THEN x.a[1] ELSE x.a[i]

\* Experiment.compute_force: the axial force of the fields,
\* 2 pi sum(w (S_z - lam_r lam_t p) r), as in the residual F_l
compute_force(n, m, lam_r_, lam_t_, lam_z_, p_) ==
    RMul(TwoPi,
         RSum(V([i \in 1..n |->
                RProd(<< w(n)[i],
                         RSub(Val(S_fn(m, "z", DC(Bc(lam_r_, i)), DC(Bc(lam_t_, i)),
                                       DC(lam_z_.a))),
                              RProd(<<Bc(lam_r_, i), Bc(lam_t_, i), Bc(p_, i)>>)),
                         r(n)[i] >>)]), n))

\* the quotient 0/0 of floating-point arithmetic
NaN == <<0, 0>>

\* Experiment.compute_fluid_load_fraction: the part of the axial force
\* carried by the pore pressure
compute_fluid_load_fraction(n, lam_r_, lam_t_, p_, F_) ==
    IF F_ = Zero THEN NaN
    ELSE RDiv(RNeg(RMul(TwoPi,
                  RSum(V([i \in 1..n |->
                         RProd(<< w(n)[i], Bc(lam_r_, i), Bc(lam_t_, i), Bc(p_, i),
                                  r(n)[i] >>)]), n))),
              F_)

\* the fields the solve methods read and write, as one record
Fields ==
    [u |-> u, p |-> p, lam_z |-> lam_z, lam_r |-> lam_r, lam_t |-> lam_t,
     F |-> F, fluid_load_fraction |-> fluid_load_fraction]

store_fields(f) ==
    /\ u' = f.u /\ p' = f.p /\ lam_z' = f.lam_z
    /\ lam_r' = f.lam_r /\ lam_t' = f.lam_t
    /\ F' = f.F /\ fluid_load_fraction' = f.fluid_load_fraction

\* the closure fun(lam_z) of initial_response: the fields it leaves (its
\* value F_target - F goes to the root finder)
initial_fun(n, m, f, x) ==
    LET s == RInv(RSqrt(x))
        lr == Vec(<<s>>, 1)
        S_r == Val(S_fn(m, "r", DC(s), DC(s), DC(x)))
        pp == Vec(<<RMul(s, S_r)>>, 1)
    IN  [f EXCEPT !.lam_z = Scalar(x), !.lam_r = lr, !.lam_t = lr,
                  !.u = Vec([i \in 1..n |-> RMul(RSub(s, One), r(n)[i])], n),
                  !.p = pp,
                  !.F = compute_force(n, m, lr, lr, Scalar(x), pp)]

\* the closure fun(X) of ForceControlled.steady_response
steady_fun(n, m, f, X) ==
    [f EXCEPT !.lam_r = Scalar(X[1]), !.lam_t = Scalar(X[1]),
              !.lam_z = Scalar(X[2]), !.p = Scalar(Zero),
              !.F = compute_force(n, m, Scalar(X[1]), Scalar(X[1]), Scalar(X[2]),
                                  Scalar(Zero))]

with_fluid_load_fraction(n, f0) ==
    the({ [f EXCEPT !.fluid_load_fraction =
                  compute_fluid_load_fraction(n, f.lam_r, f.lam_t, f.p, f.F)] :
          f \in {f0} })

\* what a method hands back: a value of some kind, None, or nothing when an
\* exception leaves it
Returned(kind, val) == [kind |-> kind, val |-> val]
None == Returned("None", <<>>)
Nothing == Returned("nothing", <<>>)
Outcome(f, e, v) == [fields |-> f, exc |-> e, ret |-> v]

\* Solution(pars, 0) with the fields initial_response stores in it
Solution(n, u_, lam_z_, p_, F_, flf) ==
    [r |-> r(n), u |-> u_, lam_z |-> lam_z_, p |-> p_, F |-> F_,
     fluid_load_fraction |-> flf]


\* initial_response after root_scalar has returned (converged, root), the
\* fields being f: fun(sol.root) and the Solution, or the message and None
initial_response_keeping_last_trial(n, m, f, converged, root) ==
    IF converged
    THEN the({ Outcome(g, "none",
                       Returned("Solution",
                                Solution(n, g.u, g.lam_z, g.p, g.F,
                                         g.fluid_load_fraction))) :
               g \in {with_fluid_load_fraction(n, f)} })
    ELSE Outcome(f, "none", None)

initial_response_finish(n, m, f, converged, root) ==
    IF converged
    THEN the({ Outcome(g, "none",
                       Returned("Solution",
                                Solution(n, g.u, g.lam_z, g.p, g.F,
                                         g.fluid_load_fraction))) :
               g \in {with_fluid_load_fraction(n, initial_fun(n, m, f, root))} })
    ELSE Outcome(f, "none", None)

\* ForceControlled.steady_response after root has returned (success, x)
steady_response_finish(n, m, f, success, x) ==
    IF success
    THEN the({ Outcome(g, "none",
                       Returned("Solution",
                                Solution(n,
                                         Vec([i \in 1..n |-> RMul(x[1], r(n)[i])], n),
                                         Scalar(x[2]), g.p, g.F,
                                         g.fluid_load_fraction))) :
               g \in {with_fluid_load_fraction(n, steady_fun(n, m, f, x))} })
    ELSE Outcome(f, "none", None)

\* np.exp at an argument x <= 0, by the rational 1/(1 - x): 1 at 0 and
\* decreasing to 0
np_exp(x) == RInv(RSub(One, x))

\* set_initial_guess(sol) once the root finder inside initial_response has
\* returned: the rest of initial_response (its result is dropped), the
\* boundary-layer pressure, and X = np.r_[u, p, lam_z]
boundary_layer(n, g, t1) ==
    [g EXCEPT !.p = Vec([i \in 1..n |->
                           RMul(g.p.a[1],
                                RSub(One, np_exp(RNeg(RDiv(RSub(One, r(n)[i]),
                                                           RSqrt(t1))))))], n)]

set_initial_guess_finish(n, m, f, converged, root, t1) ==
    the({ Outcome(h, "none", Returned("X", V(h.u.a \o h.p.a \o <<h.lam_z.a>>))) :
          h \in { boundary_layer(n, g, t1) :
                     g \in {initial_response_finish(n, m, f, converged, root).fields} } })

(***************************************************************************)
(* Hydration and the osmosis models.  NoOsmosis overrides the evaluation   *)
(* by zeros(len(J)); len of a scalar raises TypeError.  "OsmoticPressure"  *)
(* is the base class evaluating a compiled Pi(J) (here 1/J^2) elementwise  *)
(* on scalars and arrays alike.                                            *)
(***************************************************************************)
OsmosisModels == {"NoOsmosis", "OsmoticPressure"}
Raised(e) == [exc |-> e, val |-> <<>>]
Value(v) == [exc |-> "none", val |-> v]

NoOsmosis_eval_osmotic_pressure(J_) ==
    IF J_.shape = <<>> THEN Raised("TypeError") ELSE Value(np_zeros(J_.shape[1]))

OsmoticPressure_eval_osmotic_pressure(J_) ==
    IF J_.shape = <<>> THEN Value(Scalar(RInv(RSq(J_.a))))
    ELSE Value(Vec([i \in 1..J_.shape[1] |-> RInv(RSq(J_.a[i]))], J_.shape[1]))

eval_osmotic_pressure(o, J_) ==
    IF o = "NoOsmosis" THEN NoOsmosis_eval_osmotic_pressure(J_)
    ELSE OsmoticPressure_eval_osmotic_pressure(J_)

\* the closure fun(X) of Hydration.steady_response: the two residuals, or
\* the exception that leaves it
hydration_fun(m, o, X) ==
    LET lam_r_ == X[1]
        lam_z_ == X[2]
        J_ == Scalar(RMul(RSq(lam_r_), lam_z_))
        Pi == eval_osmotic_pressure(o, J_)
        S_r == Val(S_fn(m, "r", DC(lam_r_), DC(lam_r_), DC(lam_z_)))
        S_z == Val(S_fn(m, "z", DC(lam_r_), DC(lam_r_), DC(lam_z_)))
    IN  IF Pi.exc # "none" THEN Raised(Pi.exc)
        ELSE Value(<< RSub(S_r, RProd(<<lam_r_, lam_z_, Bc(Pi.val, 1)>>)),
                      RSub(S_z, RMul(RSq(lam_r_), Bc(Pi.val, 1))) >>)

\* a hydration solve that hands back None when the root finder fails
hydration_finish_quietly(success, x) ==
    IF success
    THEN [exc |-> "none",
          ret |-> Returned("tuple",
                    <<x[1], x[2], RSub(One, RInv(RMul(RSq(x[1]), x[2])))>>)]
    ELSE [exc |-> "none", ret |-> None]

\* Hydration.steady_response after root has returned (success, x)
hydration_finish(success, x) ==
    IF success
    THEN [exc |-> "none",
          ret |-> Returned("tuple",
                    <<x[1], x[2], RSub(One, RInv(RMul(RSq(x[1]), x[2])))>>)]
    ELSE [exc |-> "Exception", ret |-> Nothing]


(***************************************************************************)
(* The values the root finders try and report.  Axial stretches are        *)
(* squares of rationals, so that 1/sqrt(lam_z) is exact.                   *)
(***************************************************************************)
TrialStretches == {Rat(1, 4), One, RInt(4)}
TrialPairs == { <<One, One>>, <<Two, Rat(1, 4)>>, <<Rat(11, 10), Rat(11, 10)>> }
FirstTimes == {One, RInt(4)}
ScalarMethods == {"initial_response", "set_initial_guess"}
PairMethods == {"steady_response", "Hydration.steady_response"}

InitSolve ==
    /\ InitExperiment
    /\ u = Vec(Zeros(N), N) /\ p = Vec(Zeros(N), N) /\ lam_z = Scalar(One)
    /\ lam_r = Vec([i \in 1..N |-> One], N) /\ lam_t = Vec([i \in 1..N |-> One], N)
    /\ InitBlocks
    /\ NoSolve /\ osmosis \in OsmosisModels
    /\ NoEvaluation

\* the part of the state no solve method touches
solve_frame == <<exp_vars, J, time_vars, resid_vars, jac_vars, hist_vars,
                 osmosis, mech_vars>>

\* a method is called: it sets up fun and enters the root finder
Call(m, t1) ==
    /\ pc = "idle"
    /\ method' = m
    /\ sol_t1' = IF m = "set_initial_guess" THEN t1 ELSE sol_t1
    /\ pc' = "solving"
    /\ trials' = 0
    /\ last_trial' = <<>>
    /\ rootres' = [called |-> FALSE, converged |-> FALSE, root |-> <<>>]
    /\ ret' = Nothing
    /\ exc' = "none"
    /\ UNCHANGED <<u, p, lam_z, lam_r, lam_t, force_vars, solve_frame>>

\* the root finder evaluates fun(x) of initial_response
TrialInitial(x) ==
    /\ pc = "solving" /\ method \in ScalarMethods
    /\ trials < MaxTrials
    /\ trials' = trials + 1
    /\ last_trial' = x
    /\ \E f \in {initial_fun(N, mech, Fields, x)} : store_fields(f)
    /\ UNCHANGED <<method, pc, sol_t1, rootres, ret, exc, solve_frame>>

\* the root finder evaluates fun(X) of ForceControlled.steady_response
TrialSteady(X) ==
    /\ pc = "solving" /\ method = "steady_response"
    /\ trials < MaxTrials
    /\ trials' = trials + 1
    /\ last_trial' = X
    /\ \E f \in {steady_fun(N, mech, Fields, X)} : store_fields(f)
    /\ UNCHANGED <<method, pc, sol_t1, rootres, ret, exc, solve_frame>>

\* the root finder evaluates fun(X) of Hydration.steady_response; an
\* exception raised inside fun leaves the root finder and the method
TrialHydration(X) ==
    /\ pc = "solving" /\ method = "Hydration.steady_response"
    /\ trials < MaxTrials
    /\ trials' = trials + 1
    /\ last_trial' = X
    /\ \E v \in {hydration_fun(mech, osmosis, X)} :
           /\ exc' = v.exc
           /\ pc' = IF v.exc = "none" THEN "solving" ELSE "idle"
    /\ UNCHANGED <<u, p, lam_z, lam_r, lam_t, force_vars, method, sol_t1,
                   rootres, ret, solve_frame>>

\* the root finder returns to a ForceControlled method, which runs to its end
finish(o, c, x) ==
    /\ rootres' = [called |-> TRUE, converged |-> c, root |-> x]
    /\ pc' = "idle"
    /\ store_fields(o.fields)
    /\ exc' = o.exc
    /\ ret' = o.ret
    /\ UNCHANGED <<method, sol_t1, trials, last_trial, solve_frame>>

ReturnInitial(c, x) ==
    /\ pc = "solving" /\ method = "initial_response" /\ trials > 0
    /\ \E o \in {initial_response_finish(N, mech, Fields, c, x)} : finish(o, c, x)

ReturnSetInitialGuess(c, x) ==
    /\ pc = "solving" /\ method = "set_initial_guess" /\ trials > 0
    /\ \E o \in {set_initial_guess_finish(N, mech, Fields, c, x, sol_t1)} :
           finish(o, c, x)

ReturnSteady(c, X) ==
    /\ pc = "solving" /\ method = "steady_response" /\ trials > 0
    /\ \E o \in {steady_response_finish(N, mech, Fields, c, X)} : finish(o, c, X)

\* the root finder returns to Hydration.steady_response
ReturnHydration(c, X) ==
    /\ pc = "solving" /\ method = "Hydration.steady_response" /\ trials > 0
    /\ rootres' = [called |-> TRUE, converged |-> c, root |-> X]
    /\ pc' = "idle"
    /\ \E o \in {hydration_finish(c, X)} : exc' = o.exc /\ ret' = o.ret
    /\ UNCHANGED <<u, p, lam_z, lam_r, lam_t, force_vars, method, sol_t1,
                   trials, last_trial, solve_frame>>

NextSolve ==
    \/ \E m \in ScalarMethods \cup PairMethods, t1 \in FirstTimes : Call(m, t1)
    \/ \E x \in TrialStretches : TrialInitial(x)
    \/ \E X \in TrialPairs : TrialSteady(X)
    \/ \E X \in TrialPairs : TrialHydration(X)
    \/ \E c \in BOOLEAN, x \in TrialStretches : ReturnInitial(c, x)
    \/ \E c \in BOOLEAN, x \in TrialStretches : ReturnSetInitialGuess(c, x)
    \/ \E c \in BOOLEAN, X \in TrialPairs : ReturnSteady(c, X)
    \/ \E c \in BOOLEAN, X \in TrialPairs : ReturnHydration(c, X)

SpecSolve == InitSolve /\ [][NextSolve]_vars


(***************************************************************************)
(* Claims about the solve methods.                                         *)
(***************************************************************************)
\* a call of method m has run to its end
ended(m) == method = m /\ pc = "idle"

\* C6 (as stated): Hydration.steady_response with the NoOsmosis model
\* completes without an error being raised from the evaluation of the
\* osmotic pressure at the scalar J.
C6_NoOsmosisCompletes ==
    (ended("Hydration.steady_response") /\ osmosis = "NoOsmosis") =>
        exc # "TypeError"

\* C7: when the root finder reports non-convergence, initial_response and
\* steady_response of ForceControlled return None without raising, while
\* Hydration.steady_response raises and returns nothing; a Solution or a
\* (lam_r, lam_z, phi_0) tuple is returned only after reported convergence.
C7_AsymmetricFailure ==
    /\ \A m \in {"initial_response", "steady_response"} :
          ended(m) =>
              /\ exc = "none"
              /\ ~rootres.converged => ret = None
              /\ rootres.converged => ret.kind = "Solution"
    /\ (ended("Hydration.steady_response") /\ rootres.called) =>
          /\ ~rootres.converged => (exc = "Exception" /\ ret = Nothing)
          /\ rootres.converged => (exc = "none" /\ ret.kind = "tuple")
    /\ ret.kind \in {"Solution", "tuple"} => rootres.converged

\* C7 witness: a hydration solve has ended with an exception after the root
\* finder, having evaluated the residual, reported failure
C7_Witness ==
    /\ ended("Hydration.steady_response")
    /\ trials = 2
    /\ rootres.called /\ ~rootres.converged
    /\ exc = "Exception"

\* C8: after a converged initial_response the Solution and the fields
\* lam_z, lam_r, lam_t, u, p, F, fluid_load_fraction are those of the
\* reported root, whatever trial the root finder evaluated last.
C8_FieldsAtRoot ==
    (ended("initial_response") /\ ret.kind = "Solution") =>
        LET root == rootres.root
            s == RInv(RSqrt(root))
            S_r == Val(S_fn(mech, "r", DC(s), DC(s), DC(root)))
            at == initial_fun(N, mech, Fields, root)
        IN  /\ lam_z = Scalar(root) /\ ret.val.lam_z = Scalar(root)
            /\ lam_r = Vec(<<s>>, 1) /\ lam_t = Vec(<<s>>, 1)
            /\ u = Vec([i \in 1..N |-> RMul(RSub(s, One), r(N)[i])], N)
            /\ ret.val.u = u
            /\ p = Vec(<<RMul(s, S_r)>>, 1) /\ ret.val.p = p
            /\ F = at.F /\ ret.val.F = F
            /\ fluid_load_fraction = compute_fluid_load_fraction(N, lam_r, lam_t, p, F)
            /\ ret.val.fluid_load_fraction = fluid_load_fraction

\* C8 witness: a Solution has been returned for a root that differs from
\* the last of two trial values, on a grid of several nodes
C8_Witness ==
    /\ ended("initial_response") /\ ret.kind = "Solution"
    /\ N > 1
    /\ trials = 2
    /\ last_trial # rootres.root
    /\ F # Zero

\* C9 (as stated): set_initial_guess returns its vector [u, p, lam_z] only
\* when the root finder inside initial_response converged.
C9_GuessOnlyIfConverged ==
    (ended("set_initial_guess") /\ ret.kind = "X") => rootres.converged

\* C10 (as stated): the Solution of ForceControlled.steady_response has
\* u = (lam_r - 1) r for the radial stretch lam_r of the root, and lam_z
\* the axial stretch of the root.
C10_SteadyDisplacement ==
    (ended("steady_response") /\ ret.kind = "Solution") =>
        /\ ret.val.u =
               Vec([i \in 1..N |-> RMul(RSub(rootres.root[1], One), r(N)[i])], N)
        /\ ret.val.lam_z = Scalar(rootres.root[2])

====
